---- MODULE Spec2Model ----
(***************************************************************************)
(* Model of the gateway's shard pool (apps/gateway): the per-shard state   *)
(* table (shard/state.rs), the shard runner with its circuit breaker and   *)
(* the pool's run/shutdown (shard/pool.rs), the envelope serializer        *)
(* (events/serialize.rs) and the publisher (nats/publisher.rs).            *)
(*                                                                         *)
(* Granularity: a runner is a tokio task; it can be suspended, and its     *)
(* select! can drop the run_shard future, only at an .await.  One action   *)
(* is therefore the code between two awaits of run_shard:                  *)
(*   pc = "start"   spawned, not yet polled                                *)
(*   pc = "recv"    at shard.next_event(..).await           (pool.rs:165)  *)
(*   pc = "submit"  at jetstream.publish(..).await      (publisher.rs:97)  *)
(*   pc = "ack"     at ack_future.await                (publisher.rs:101)  *)
(*   pc = "done"    the task has finished                                  *)
(* The gateway client, the broker and serde_json are external: what they   *)
(* return (the next stream item, the outcome of to_vec, of the submit and  *)
(* of the acknowledgement) is an input of the action.  Prometheus metrics  *)
(* are write-only and are left out.  Instant::now() is a logical clock.    *)
(***************************************************************************)
EXTENDS Integers, Sequences, FiniteSets, TLC

\* ------------------------------------------------------------- bounds
\* What the environment issues in a run of Spec: the stream items received
\* successfully and the receive errors, each over all shards of the pool, and
\* the calls of shutdown()
MaxEvents == 1
MaxErrors == 1
MaxShutdowns == 1
\* FairShutdown: the calls of shutdown(), more than one
ShutdownCalls == 2
\* SpecPublish: the stream items received successfully by its one shard
PublishEvents == 2
\* SpecBreaker: the receive errors of its one shard, enough to trip the
\* breaker after a reset
BreakerErrors == 11
\* SpecShared: the stream items received successfully, over both shards
SharedSteps == 3
\* total_shards of the pools of Spec; the pool is pool 0 and owns them all
PoolSizes == {1, 2}
\* SpecHealth: the shards of its pool
HealthShards == 4

\* ---------------------------------------------------------- constants
SHARDS_PER_POOL == 25
MAX_CONSECUTIVE_ERRORS == 10

\* Option<T>: None is <<>>, Some(x) is <<x>>
None == <<>>
Some(x) == <<x>>

\* ------------------------------------------------------------- u64, u32
\* A u64 is its four 16-bit limbs, least significant first: the values of the
\* constructor's arguments reach 2^32 and beyond
LIMB == 65536

\* The u64 of a small number (below 2^31)
u64(n) == <<n % LIMB, n \div LIMB, 0, 0>>

\* The number of a u64 below 2^31
to_int(x) == x[1] + x[2] * LIMB

\* x * k for a small k: the low 64 bits, and whether the product exceeded them
mul_u64(x, k) ==
    LET v1 == x[1] * k
        v2 == x[2] * k + (v1 \div LIMB)
        v3 == x[3] * k + (v2 \div LIMB)
        v4 == x[4] * k + (v3 \div LIMB)
    IN  [value |-> <<v1 % LIMB, v2 % LIMB, v3 % LIMB, v4 % LIMB>>,
         overflow |-> v4 \div LIMB > 0]

\* x + k for a small k: the low 64 bits, and whether the sum exceeded them
add_u64(x, k) ==
    LET v1 == x[1] + k
        v2 == x[2] + (v1 \div LIMB)
        v3 == x[3] + (v2 \div LIMB)
        v4 == x[4] + (v3 \div LIMB)
    IN  [value |-> <<v1 % LIMB, v2 % LIMB, v3 % LIMB, v4 % LIMB>>,
         overflow |-> v4 \div LIMB > 0]

\* x < y
lt_u64(x, y) ==
    \/ x[4] < y[4]
    \/ x[4] = y[4] /\ x[3] < y[3]
    \/ x[4] = y[4] /\ x[3] = y[3] /\ x[2] < y[2]
    \/ x[4] = y[4] /\ x[3] = y[3] /\ x[2] = y[2] /\ x[1] < y[1]

Min(a, b) == IF lt_u64(b, a) THEN b ELSE a

\* u32::try_from(x).is_ok()
fits_u32(x) == x[3] = 0 /\ x[4] = 0

\* start_shard, end_shard and (start_shard..end_shard).collect() of
\* ShardPool::new, in wrapping arithmetic, and whether a product or the sum
\* overflowed.  end_shard is at most 25 above start_shard, so the range has
\* at most SHARDS_PER_POOL elements.
shard_range(pool_id, total_shards) ==
    LET start_shard == mul_u64(pool_id, SHARDS_PER_POOL)
        next_pool == add_u64(pool_id, 1)
        end_raw == mul_u64(next_pool.value, SHARDS_PER_POOL)
        end_shard == Min(end_raw.value, total_shards)
    IN  [shard_ids |->
            {add_u64(start_shard.value, k).value :
                k \in {j \in 0..(SHARDS_PER_POOL - 1) :
                          /\ ~add_u64(start_shard.value, j).overflow
                          /\ lt_u64(add_u64(start_shard.value, j).value, end_shard)}},
         overflow |-> start_shard.overflow \/ next_pool.overflow \/ end_raw.overflow]

\* ShardPool::new(pool_id, total_shards, ..): what it returns.  An overflow of
\* the range arithmetic panics in a build with overflow checks and wraps in
\* one without.
new(pool_id, total_shards, overflow_checks) ==
    LET range == shard_range(pool_id, total_shards)
        wide == {id \in range.shard_ids : ~fits_u32(id)}
    IN  IF overflow_checks /\ range.overflow
        THEN [kind |-> "Panic", value |-> u64(0), shard_ids |-> {}]
        ELSE IF ~fits_u32(total_shards)
        THEN [kind |-> "ShardIdOverflow", value |-> total_shards, shard_ids |-> {}]
        ELSE IF wide # {}
        THEN [kind |-> "ShardIdOverflow",
              value |-> CHOOSE id \in wide : \A other \in wide : ~lt_u64(other, id),
              shard_ids |-> {}]
        ELSE [kind |-> "Ok", value |-> u64(0), shard_ids |-> range.shard_ids]

\* The shard ids of the pool ShardPool::new returns for small arguments
shard_ids(pool_id, total_shards) ==
    {to_int(id) : id \in new(u64(pool_id), u64(total_shards), FALSE).shard_ids}

\* --------------------------------------------------------- shard state
Healths == {"Connecting", "Ready", "Resuming", "Disconnected", "Dead"}

\* Mutant of is_healthy: only a resuming shard counts as healthy
is_healthy_resuming_only(h) == h = "Resuming"

is_healthy(h) == h \in {"Ready", "Resuming"}

is_ready_health(h) == h = "Ready"

\* ShardStateEntry::default()
DefaultEntry ==
    [health |-> "Connecting", guilds |-> 0, events_received |-> 0,
     events_routed |-> 0, route_failures |-> 0,
     last_heartbeat |-> None, connected_at |-> None]

\* ShardState::new: one default entry per shard id
NewShardState(ids) == [i \in ids |-> DefaultEntry]

RECURSIVE SumOver(_, _, _)
SumOver(m, ids, field) ==
    IF ids = {} THEN 0
    ELSE LET i == CHOOSE x \in ids : TRUE
         IN  m[i][field] + SumOver(m, ids \ {i}, field)

total_events_received(m) == SumOver(m, DOMAIN m, "events_received")

total_events_routed(m) == SumOver(m, DOMAIN m, "events_routed")

total_guilds(m) == SumOver(m, DOMAIN m, "guilds")

ready_shards(m) == Cardinality({i \in DOMAIN m : is_ready_health(m[i].health)})

healthy_shards(m) == Cardinality({i \in DOMAIN m : is_healthy(m[i].health)})

shard_count(m) == Cardinality(DOMAIN m)

\* Mutant of is_ready: the pool is ready once every shard is
is_ready_all(m) == ready_shards(m) = shard_count(m)

is_ready(m) == ready_shards(m) > 0

\* Instant::now(): a logical clock, the number of events the pool has received
Now(m) == total_events_received(m)

\* Mutant of set_health: an entry is created for an id that has none
set_health_inserting(m, id, health) ==
    [k \in DOMAIN m \cup {id} |->
        IF k = id
        THEN [health |-> health, guilds |-> 0, events_received |-> 0,
              events_routed |-> 0, route_failures |-> 0,
              last_heartbeat |-> None, connected_at |-> None]
        ELSE m[k]]

\* Mutant of set_health: every transition to Ready stamps connected_at
set_health_restamping(m, id, health) ==
    IF id \in DOMAIN m
    THEN [m EXCEPT ![id].health = health,
                   ![id].connected_at =
                       IF health = "Ready"
                       THEN Some(Now(m)) ELSE m[id].connected_at]
    ELSE m

\* get_mut(&shard_id) yields nothing for an id that is no key: no effect
set_health(m, id, health) ==
    IF id \in DOMAIN m
    THEN [m EXCEPT ![id].health = health,
                   ![id].connected_at =
                       IF health = "Ready" /\ m[id].connected_at = None
                       THEN Some(Now(m)) ELSE m[id].connected_at]
    ELSE m

set_guilds(m, id, count) ==
    IF id \in DOMAIN m THEN [m EXCEPT ![id].guilds = count] ELSE m

\* Mutant of record_event: the increment is lost
record_event_lost(m, id) == m

record_event(m, id) ==
    IF id \in DOMAIN m
    THEN [m EXCEPT ![id].events_received = @ + 1] ELSE m

\* Mutant of record_route: a routed event is counted as a failure as well
record_route_both(m, id) ==
    IF id \in DOMAIN m
    THEN [m EXCEPT ![id].events_routed = @ + 1, ![id].route_failures = @ + 1]
    ELSE m

record_route(m, id) ==
    IF id \in DOMAIN m
    THEN [m EXCEPT ![id].events_routed = @ + 1] ELSE m

record_route_failure(m, id) ==
    IF id \in DOMAIN m
    THEN [m EXCEPT ![id].route_failures = @ + 1] ELSE m

record_heartbeat(m, id) ==
    IF id \in DOMAIN m
    THEN [m EXCEPT ![id].last_heartbeat = Some(Now(m))] ELSE m


\* ------------------------------------------------------------- events
\* The twilight Event variants the runner and the serializer tell apart;
\* "MessageCreate" stands for every variant neither of them names.
PlainKinds ==
    {"Resumed", "GatewayHeartbeatAck", "GuildCreate", "MemberAdd",
     "MemberRemove", "MemberUpdate", "InteractionCreate", "GatewayHeartbeat",
     "GatewayHello", "GatewayInvalidateSession", "GatewayReconnect",
     "MessageCreate"}

\* guild.unavailable is an Option<bool>
Unavailables == {"None", "Some(false)", "Some(true)"}

\* largest ready.guilds.len() of a Ready payload
MaxReadyGuilds == 1

\* ready.guilds.len() of the Ready payload of the guild accounting scenario,
\* and the number of events its streams deliver
ScenarioGuilds == 10

GuildSteps == 4

Events ==
    {[kind |-> "Ready", guilds |-> n, unavailable |-> "None"] :
        n \in 0..MaxReadyGuilds}
    \cup {[kind |-> "GuildDelete", guilds |-> 0, unavailable |-> u] :
            u \in Unavailables}
    \cup {[kind |-> k, guilds |-> 0, unavailable |-> "None"] : k \in PlainKinds}

\* twilight_gateway::error::ReceiveMessageErrorType
ErrorKinds == {"Reconnect", "WebSocket", "Deserializing"}

\* Mutant of serialize_event: a Ready event is forwarded too
serialize_event_ready(ev, shard_id) ==
    CASE ev.kind = "GuildCreate" ->
            Some([event_type |-> "guild.join", shard_id |-> shard_id,
                  data |-> {"name", "member_count", "owner_id"}])
      [] ev.kind = "GuildDelete" ->
            Some([event_type |-> "guild.leave", shard_id |-> shard_id,
                  data |-> {"unavailable"}])
      [] ev.kind = "MemberAdd" ->
            Some([event_type |-> "member.join", shard_id |-> shard_id,
                  data |-> {"username", "discriminator"}])
      [] ev.kind = "MemberRemove" ->
            Some([event_type |-> "member.leave", shard_id |-> shard_id,
                  data |-> {}])
      [] ev.kind = "MemberUpdate" ->
            Some([event_type |-> "member.update", shard_id |-> shard_id,
                  data |-> {"roles", "nick"}])
      [] ev.kind = "InteractionCreate" ->
            Some([event_type |-> "interaction.create", shard_id |-> shard_id,
                  data |-> {"interaction_id", "interaction_type", "token"}])
      [] ev.kind = "Ready" ->
            Some([event_type |-> "ready", shard_id |-> shard_id,
                  data |-> {}])
      [] OTHER -> None

\* serialize_event: the envelope (its event_type, its shard_id and the field
\* names of its data object, none for a null data), or None
serialize_event(ev, shard_id) ==
    CASE ev.kind = "GuildCreate" ->
            Some([event_type |-> "guild.join", shard_id |-> shard_id,
                  data |-> {"name", "member_count", "owner_id"}])
      [] ev.kind = "GuildDelete" ->
            Some([event_type |-> "guild.leave", shard_id |-> shard_id,
                  data |-> {"unavailable"}])
      [] ev.kind = "MemberAdd" ->
            Some([event_type |-> "member.join", shard_id |-> shard_id,
                  data |-> {"username", "discriminator"}])
      [] ev.kind = "MemberRemove" ->
            Some([event_type |-> "member.leave", shard_id |-> shard_id,
                  data |-> {}])
      [] ev.kind = "MemberUpdate" ->
            Some([event_type |-> "member.update", shard_id |-> shard_id,
                  data |-> {"roles", "nick"}])
      [] ev.kind = "InteractionCreate" ->
            Some([event_type |-> "interaction.create", shard_id |-> shard_id,
                  data |-> {"interaction_id", "interaction_type", "token"}])
      [] OTHER -> None

\* ---------------------------------------------------------- publisher
\* subjects::COMMANDS, GUILD_EVENTS, MEMBER_EVENTS
subjects_COMMANDS == "commands"
subjects_GUILD_EVENTS == "events.guild"
subjects_MEMBER_EVENTS == "events.member"

\* The event types a caller of publish_event passes: the seven the router
\* knows, and others: in another case, with a known type as prefix, with two
\* dots, with none, and one of a Discord event the serializer does not forward
EventTypes ==
    {"interaction.create", "guild.join", "guild.leave", "guild.update",
     "member.join", "member.leave", "member.update",
     "a.b.c", "Guild.Join", "guild.joined", "guild.join.x", "message.create",
     "guild", "interaction"}

\* str::split('.') on the strings of the model: the event types, the subjects
\* the router makes of them and the subject selectors of the streams; any
\* other string has no dot
DotSplit(str) ==
    CASE str = "a.b.c" -> <<"a", "b", "c">>
      [] str = "commands.interaction" -> <<"commands", "interaction">>
      [] str = "events.guild.join" -> <<"events", "guild", "join">>
      [] str = "events.guild.leave" -> <<"events", "guild", "leave">>
      [] str = "events.guild.update" -> <<"events", "guild", "update">>
      [] str = "events.member.join" -> <<"events", "member", "join">>
      [] str = "events.member.leave" -> <<"events", "member", "leave">>
      [] str = "events.member.update" -> <<"events", "member", "update">>
      [] str = "events.a_b_c" -> <<"events", "a_b_c">>
      [] str = "events.Guild_Join" -> <<"events", "Guild_Join">>
      [] str = "events.guild_joined" -> <<"events", "guild_joined">>
      [] str = "events.guild_join_x" -> <<"events", "guild_join_x">>
      [] str = "events.message_create" -> <<"events", "message_create">>
      [] str = "events.guild" -> <<"events", "guild">>
      [] str = "events.interaction" -> <<"events", "interaction">>
      [] str = "commands.>" -> <<"commands", ">">>
      [] str = "events.>" -> <<"events", ">">>
      [] str = "Guild.Join" -> <<"Guild", "Join">>
      [] str = "guild.joined" -> <<"guild", "joined">>
      [] str = "guild.join.x" -> <<"guild", "join", "x">>
      [] str = "message.create" -> <<"message", "create">>
      [] str = "interaction.create" -> <<"interaction", "create">>
      [] str = "guild.join" -> <<"guild", "join">>
      [] str = "guild.leave" -> <<"guild", "leave">>
      [] str = "guild.update" -> <<"guild", "update">>
      [] str = "member.join" -> <<"member", "join">>
      [] str = "member.leave" -> <<"member", "leave">>
      [] str = "member.update" -> <<"member", "update">>
      [] OTHER -> <<str>>

RECURSIVE JoinWith(_, _)
JoinWith(segs, sep) ==
    IF Len(segs) = 0 THEN ""
    ELSE IF Len(segs) = 1 THEN segs[1]
    ELSE segs[1] \o sep \o JoinWith(Tail(segs), sep)

\* Mutant of replace_dots: the dots are kept
replace_dots_kept(str) == str

\* other.replace('.', "_")
replace_dots(str) == JoinWith(DotSplit(str), "_")

\* Mutant of route_event: the default arm leaves out the events. prefix
route_event_bare(event_type) ==
    CASE event_type = "interaction.create" -> subjects_COMMANDS \o ".interaction"
      [] event_type = "guild.join" -> subjects_GUILD_EVENTS \o ".join"
      [] event_type = "guild.leave" -> subjects_GUILD_EVENTS \o ".leave"
      [] event_type = "guild.update" -> subjects_GUILD_EVENTS \o ".update"
      [] event_type = "member.join" -> subjects_MEMBER_EVENTS \o ".join"
      [] event_type = "member.leave" -> subjects_MEMBER_EVENTS \o ".leave"
      [] event_type = "member.update" -> subjects_MEMBER_EVENTS \o ".update"
      [] OTHER -> replace_dots(event_type)

\* NatsPublisher::route_event
route_event(event_type) ==
    CASE event_type = "interaction.create" -> subjects_COMMANDS \o ".interaction"
      [] event_type = "guild.join" -> subjects_GUILD_EVENTS \o ".join"
      [] event_type = "guild.leave" -> subjects_GUILD_EVENTS \o ".leave"
      [] event_type = "guild.update" -> subjects_GUILD_EVENTS \o ".update"
      [] event_type = "member.join" -> subjects_MEMBER_EVENTS \o ".join"
      [] event_type = "member.leave" -> subjects_MEMBER_EVENTS \o ".leave"
      [] event_type = "member.update" -> subjects_MEMBER_EVENTS \o ".update"
      [] OTHER -> "events." \o replace_dots(event_type)

\* ensure_streams: the streams it creates and the subject selectors of each
Streams ==
    {[name |-> "COMMANDS", subjects |-> {"commands.>"}],
     [name |-> "EVENTS", subjects |-> {"events.>"}]}

\* Whether the tokens of a subject match the tokens of a selector: > stands
\* for one or more tokens at the end, * for exactly one token
RECURSIVE TokensMatch(_, _)
TokensMatch(selector, subject) ==
    IF Len(selector) = 0 THEN Len(subject) = 0
    ELSE IF Len(subject) = 0 THEN FALSE
    ELSE IF selector[1] = ">" THEN Len(selector) = 1
    ELSE /\ selector[1] = "*" \/ selector[1] = subject[1]
         /\ TokensMatch(Tail(selector), Tail(subject))

\* The names of the streams that take a message published on a subject
streams_of(subject) ==
    {st.name : st \in {x \in Streams :
        \E sel \in x.subjects : TokensMatch(DotSplit(sel), DotSplit(subject))}}

\* What a call of publish_event returned: Ok(()), or one of its two errors
\* with the fields the error carries
PublishOk ==
    [kind |-> "Ok", event_type |-> "", shard_id |-> 0, subject |-> ""]

\* Mutant of SerializationFailed: the error does not carry the envelope's fields
SerializationFailedBlank(envelope) ==
    [kind |-> "SerializationFailed", event_type |-> "", shard_id |-> 0,
     subject |-> ""]

\* GatewayError::SerializationFailed { event_type, shard_id, source }
SerializationFailed(envelope) ==
    [kind |-> "SerializationFailed", event_type |-> envelope.event_type,
     shard_id |-> envelope.shard_id, subject |-> ""]

\* GatewayError::NatsPublishFailed { subject, source }
NatsPublishFailed(envelope) ==
    [kind |-> "NatsPublishFailed", event_type |-> "", shard_id |-> 0,
     subject |-> route_event(envelope.event_type)]

\* NatsPublisher::connect: connected, both counters 0
NewPublisher ==
    [connected |-> TRUE, messages_published |-> 0, publish_failures |-> 0]

\* publish_event, Ok(ack): messages_published.fetch_add(1)
published(n) ==
    IF n = None THEN n
    ELSE Some([n[1] EXCEPT !.messages_published = @ + 1])

\* Mutant of publish_failed: a failed submit or acknowledgement counts as a
\* published message
publish_failed_as_published(n) ==
    IF n = None THEN n
    ELSE Some([n[1] EXCEPT !.messages_published = @ + 1])

\* publish_event, Err of the submit or of the ack: publish_failures.fetch_add(1)
publish_failed(n) ==
    IF n = None THEN n
    ELSE Some([n[1] EXCEPT !.publish_failures = @ + 1])

\* gateway_config.nats_url: NATS_URL is unset or names the broker
NatsUrls == {None, Some("nats://localhost:4222")}

\* The `let nats = ..` of main: a publisher when a URL is configured and
\* NatsPublisher::connect returns Ok, no publisher otherwise
main_nats(nats_url, connect_ok) ==
    IF nats_url # None
    THEN IF connect_ok THEN Some(NewPublisher) ELSE None
    ELSE None

\* NatsPublisher::is_connected: connected.load()
is_connected(n) == n[1].connected

\* Mutant of close: the flag is flipped, a second call reconnects
close_toggle(n) == Some([n[1] EXCEPT !.connected = ~@])

\* NatsPublisher::close: connected.store(false)
close(n) == Some([n[1] EXCEPT !.connected = FALSE])

\* ------------------------------------------------------------- health
\* Mutant of ready_handler: without a publisher the broker counts as not
\* connected
ready_handler_requires_nats(pool_id, m, n) ==
    LET shards_ready == ready_shards(m)
        nats_connected == IF n = None THEN FALSE ELSE is_connected(n)
        ready == shards_ready > 0 /\ nats_connected
    IN  [status |-> IF ready THEN 200 ELSE 503,
         ready |-> ready, pool_id |-> pool_id,
         shards_total |-> shard_count(m), shards_ready |-> shards_ready,
         nats_connected |-> nats_connected, guilds_total |-> total_guilds(m)]

\* Mutant of ready_handler: readiness looks at the shards only
ready_handler_shards_only(pool_id, m, n) ==
    LET shards_ready == ready_shards(m)
        nats_connected == IF n = None THEN TRUE ELSE is_connected(n)
        ready == shards_ready > 0
    IN  [status |-> IF ready THEN 200 ELSE 503,
         ready |-> ready, pool_id |-> pool_id,
         shards_total |-> shard_count(m), shards_ready |-> shards_ready,
         nats_connected |-> nats_connected, guilds_total |-> total_guilds(m)]

\* ready_handler: the status code and the ReadyResponse it answers with, for
\* the ShardState m and the Option<Arc<NatsPublisher>> n of the AppState
ready_handler(pool_id, m, n) ==
    LET shards_ready == ready_shards(m)
        nats_connected == IF n = None THEN TRUE ELSE is_connected(n)
        ready == shards_ready > 0 /\ nats_connected
    IN  [status |-> IF ready THEN 200 ELSE 503,
         ready |-> ready, pool_id |-> pool_id,
         shards_total |-> shard_count(m), shards_ready |-> shards_ready,
         nats_connected |-> nats_connected, guilds_total |-> total_guilds(m)]


\* ------------------------------------------------------------- runner
VARIABLES
    shards,              \* ShardState: shard id -> ShardStateEntry
    nats,                \* Option<Arc<NatsPublisher>> of the pool
    pc,                  \* shard id -> where the shard's task is
    consecutive_errors,  \* shard id -> the runner's local counter
    inflight,            \* shard id -> the publishes issued and not completed
    result,              \* shard id -> what the task ended with
    rx,                  \* shard id -> shutdown messages sent to its receiver
    run_pc,              \* "new", "running", "returned": ShardPool::run
    run_result,          \* what run() returned
    shutdowns,           \* calls of shutdown() so far
    streak,              \* shard id -> receive errors since the last Ok item
    recv_errors,         \* receive errors delivered so far, over all shards
    limits,              \* how many items and calls the environment issues
    publish_outcome,     \* shard id -> the calls of publish_event that have
                         \* returned to its runner and what the last returned
    ctor                 \* the call of ShardPool::new: its arguments and what
                         \* it returned

vars ==
    <<shards, nats, pc, consecutive_errors, inflight, result, rx, run_pc,
      run_result, shutdowns, streak, recv_errors, limits, publish_outcome, ctor>>

Pending == [kind |-> "Pending", shard_id |-> 0, count |-> 0, max |-> 0, cause |-> ""]

\* tokio::sync::broadcast::channel(1)
SHUTDOWN_CAPACITY == 1

\* Mutant of recv_result: a receiver that lagged keeps waiting
recv_result_lagged_waits(n) ==
    IF n = 0 THEN "Pending"
    ELSE IF n > SHUTDOWN_CAPACITY THEN "Pending" ELSE "Ok"

\* shutdown_rx.recv() of a receiver that n messages were sent to
recv_result(n) ==
    IF n = 0 THEN "Pending"
    ELSE IF n > SHUTDOWN_CAPACITY THEN "Lagged" ELSE "Ok"

\* Mutant of ErrOutcome: the threshold compared with > instead of >=
ErrOutcomeOffByOne(kind, consecutive) ==
    IF kind = "Reconnect" THEN "reconnect_failed"
    ELSE IF consecutive > MAX_CONSECUTIVE_ERRORS THEN "circuit_broken"
    ELSE "transient"

\* Mutant of ErrOutcome: the breaker checked before the reconnect failure
ErrOutcomeBreakerFirst(kind, consecutive) ==
    IF consecutive >= MAX_CONSECUTIVE_ERRORS THEN "circuit_broken"
    ELSE IF kind = "Reconnect" THEN "reconnect_failed"
    ELSE "transient"

\* The runner's decision on a receive error, after consecutive_errors += 1
ErrOutcome(kind, consecutive) ==
    IF kind = "Reconnect" THEN "reconnect_failed"
    ELSE IF consecutive >= MAX_CONSECUTIVE_ERRORS THEN "circuit_broken"
    ELSE "transient"

\* Mutant of ErrReturns: the fatal branches fall through instead of returning
ErrReturnsNever(outcome) == FALSE

\* Mutant of ErrReturns: the transient branch returns too
ErrReturnsAlways(outcome) == TRUE

\* Whether the runner returns Err from the branch taken on a receive error
ErrReturns(outcome) == outcome # "transient"

\* Mutant of TaskExit: the end of one task ends every task of the pool
TaskExitAbortAll(pcs, s) == [t \in DOMAIN pcs |-> "done"]

\* What the end of one shard's task does to the tasks of the pool: the task's
\* outcome is logged, only that task is finished
TaskExit(pcs, s) == [pcs EXCEPT ![s] = "done"]

\* Mutant of HandleEvent: every event the match does not name marks the shard
\* Ready
HandleEventAnyReady(m, id, ev) ==
    CASE ev.kind = "Ready" ->
            set_guilds(set_health(m, id, "Ready"), id, ev.guilds)
      [] ev.kind = "Resumed" -> set_health(m, id, "Ready")
      [] ev.kind = "GatewayHeartbeatAck" -> record_heartbeat(m, id)
      [] ev.kind = "GuildCreate" -> set_guilds(m, id, total_guilds(m) + 1)
      [] ev.kind = "GuildDelete" ->
            IF ev.unavailable # "Some(true)" /\ total_guilds(m) > 0
            THEN set_guilds(m, id, total_guilds(m) - 1)
            ELSE m
      [] OTHER -> set_health(m, id, "Ready")

\* Mutant of HandleEvent: a Resumed event sets the health to Resuming
HandleEventResuming(m, id, ev) ==
    CASE ev.kind = "Ready" ->
            set_guilds(set_health(m, id, "Ready"), id, ev.guilds)
      [] ev.kind = "Resumed" -> set_health(m, id, "Resuming")
      [] ev.kind = "GatewayHeartbeatAck" -> record_heartbeat(m, id)
      [] ev.kind = "GuildCreate" -> set_guilds(m, id, total_guilds(m) + 1)
      [] ev.kind = "GuildDelete" ->
            IF ev.unavailable # "Some(true)" /\ total_guilds(m) > 0
            THEN set_guilds(m, id, total_guilds(m) - 1)
            ELSE m
      [] OTHER -> m

\* Mutant of HandleEvent: a Resumed event sets the guild count like a Ready
HandleEventResumedGuilds(m, id, ev) ==
    CASE ev.kind = "Ready" ->
            set_guilds(set_health(m, id, "Ready"), id, ev.guilds)
      [] ev.kind = "Resumed" ->
            set_guilds(set_health(m, id, "Ready"), id, ev.guilds)
      [] ev.kind = "GatewayHeartbeatAck" -> record_heartbeat(m, id)
      [] ev.kind = "GuildCreate" -> set_guilds(m, id, total_guilds(m) + 1)
      [] ev.kind = "GuildDelete" ->
            IF ev.unavailable # "Some(true)" /\ total_guilds(m) > 0
            THEN set_guilds(m, id, total_guilds(m) - 1)
            ELSE m
      [] OTHER -> m

\* Mutant of HandleEvent: a GuildDelete decrements whatever its unavailable
HandleEventDeleteAlways(m, id, ev) ==
    CASE ev.kind = "Ready" ->
            set_guilds(set_health(m, id, "Ready"), id, ev.guilds)
      [] ev.kind = "Resumed" -> set_health(m, id, "Ready")
      [] ev.kind = "GatewayHeartbeatAck" -> record_heartbeat(m, id)
      [] ev.kind = "GuildCreate" -> set_guilds(m, id, total_guilds(m) + 1)
      [] ev.kind = "GuildDelete" ->
            IF total_guilds(m) > 0
            THEN set_guilds(m, id, total_guilds(m) - 1)
            ELSE m
      [] OTHER -> m

\* The runner's handling of the well-known events (the match on &event)
HandleEvent(m, id, ev) ==
    CASE ev.kind = "Ready" ->
            set_guilds(set_health(m, id, "Ready"), id, ev.guilds)
      [] ev.kind = "Resumed" -> set_health(m, id, "Ready")
      [] ev.kind = "GatewayHeartbeatAck" -> record_heartbeat(m, id)
      [] ev.kind = "GuildCreate" -> set_guilds(m, id, total_guilds(m) + 1)
      [] ev.kind = "GuildDelete" ->
            IF ev.unavailable # "Some(true)" /\ total_guilds(m) > 0
            THEN set_guilds(m, id, total_guilds(m) - 1)
            ELSE m
      [] OTHER -> m

\* Mutant of PcPublishing: the publish is issued and not awaited
PcDetached == "recv"

\* Where the runner is once it has called nats.publish_event(&payload): it
\* awaits the call
PcPublishing == "submit"

\* Mutant of PcAfterPublish: a publish error is propagated out of run_shard
PcAfterPublishPropagate(ok) == IF ok THEN "recv" ELSE "done"

\* Where the runner goes after the match on the publish result: both arms
\* fall through to the next iteration of the loop
PcAfterPublish(ok) == "recv"

\* The keys of the state table: the shards of the pool
Shards == DOMAIN shards

\* No call of publish_event has returned yet
NoCall ==
    [calls |-> 0, kind |-> "None", event_type |-> "", shard_id |-> 0,
     subject |-> ""]

\* publish_event returns r to the runner of shard s.  What the calls returned
\* is kept only in the runs that observe it (limits.trace)
Returns(s, r) ==
    IF limits.trace
    THEN [publish_outcome EXCEPT ![s] =
             [calls |-> @.calls + 1, kind |-> r.kind, event_type |-> r.event_type,
              shard_id |-> r.shard_id, subject |-> r.subject]]
    ELSE publish_outcome

\* ShardPool::new has not been called
NotCalled == [kind |-> "NotCalled", value |-> u64(0), shard_ids |-> {}]

\* The state after ShardPool::new(0, total_shards, .., nats, ..) for a small
\* total_shards: the range arithmetic does not overflow, whatever the build
Constructed(total_shards) ==
    LET ids == shard_ids(0, total_shards)
    IN  /\ ctor = [pool_id |-> u64(0), total_shards |-> u64(total_shards),
                   overflow_checks |-> FALSE,
                   out |-> new(u64(0), u64(total_shards), FALSE)]
        /\ shards = NewShardState(ids)
        /\ nats \in {None, Some(NewPublisher)}
        /\ pc = [s \in ids |-> "unspawned"]
        /\ consecutive_errors = [s \in ids |-> 0]
        /\ inflight = [s \in ids |-> {}]
        /\ result = [s \in ids |-> Pending]
        /\ rx = [s \in ids |-> 0]
        /\ run_pc = "new"
        /\ run_result = "Pending"
        /\ shutdowns = 0
        /\ streak = [s \in ids |-> 0]
        /\ recv_errors = 0
        /\ publish_outcome = [s \in ids |-> NoCall]

\* A pool of one or of two shards, short streams
Init ==
    /\ \E n \in PoolSizes : Constructed(n)
    /\ limits = [events |-> MaxEvents, errors |-> MaxErrors,
                 shutdowns |-> MaxShutdowns, early |-> FALSE,
                 trace |-> FALSE]

\* A pool of one shard whose stream delivers several events; what its calls
\* of publish_event return is observed
InitPublish ==
    /\ Constructed(1)
    /\ limits = [events |-> PublishEvents, errors |-> MaxErrors,
                 shutdowns |-> MaxShutdowns, early |-> FALSE,
                 trace |-> TRUE]

\* A pool of one shard whose stream delivers many errors
InitBreaker ==
    /\ Constructed(1)
    /\ limits = [events |-> MaxEvents, errors |-> BreakerErrors,
                 shutdowns |-> MaxShutdowns, early |-> FALSE,
                 trace |-> FALSE]

\* ShardPool::run up to the join loop: one receiver and one task per shard
Run ==
    /\ run_pc = "new"
    /\ run_pc' = "running"
    /\ pc' = [s \in Shards |-> "start"]
    /\ UNCHANGED <<shards, nats, consecutive_errors, inflight, result, rx,
                   run_result, shutdowns, streak, recv_errors, limits,
                   publish_outcome, ctor>>

\* run_shard up to its first await
Start(s) ==
    /\ pc[s] = "start"
    /\ shards' = set_health(shards, s, "Connecting")
    /\ pc' = [pc EXCEPT ![s] = "recv"]
    /\ UNCHANGED <<nats, consecutive_errors, inflight, result, rx, run_pc,
                   run_result, shutdowns, streak, recv_errors, limits,
                   publish_outcome, ctor>>

\* Mutant of Payload: the event is serialized whether or not there is a
\* publisher
PayloadAlways(n, ev, s) == serialize_event(ev, s)

\* What the runner has to publish for an event: the serializer is called only
\* inside `if let Some(ref nats) = nats`
Payload(n, ev, s) == IF n # None THEN serialize_event(ev, s) ELSE None

\* next_event yields Some(Ok(ev)): one iteration of the loop up to the next
\* await.  to_vec_ok is what serde_json::to_vec returns inside publish_event.
RecvOk(s, ev, to_vec_ok) ==
    /\ pc[s] = "recv"
    /\ total_events_received(shards) < limits.events
    /\ LET counted == record_event(shards, s)
           handled == HandleEvent(counted, s, ev)
           payload == Payload(nats, ev, s)
       IN  /\ consecutive_errors' = [consecutive_errors EXCEPT ![s] = 0]
           /\ streak' = [streak EXCEPT ![s] = 0]
           /\ IF payload = None
              THEN /\ shards' = handled
                   /\ UNCHANGED <<pc, inflight, publish_outcome>>
              ELSE IF to_vec_ok
              THEN /\ shards' = handled
                   /\ pc' = [pc EXCEPT ![s] = PcPublishing]
                   /\ inflight' = [inflight EXCEPT ![s] = @ \cup
                         {[seq |-> counted[s].events_received,
                           envelope |-> payload[1]]}]
                   /\ UNCHANGED publish_outcome
              ELSE /\ shards' = record_route_failure(handled, s)
                   /\ pc' = [pc EXCEPT ![s] = PcAfterPublish(FALSE)]
                   /\ publish_outcome' = Returns(s, SerializationFailed(payload[1]))
                   /\ UNCHANGED inflight
    /\ UNCHANGED <<nats, result, rx, run_pc, run_result, shutdowns,
                   recv_errors, limits, ctor>>

\* next_event yields Some(Err(source)) with source.kind() = kind
RecvErr(s, kind) ==
    /\ pc[s] = "recv"
    /\ recv_errors < limits.errors
    /\ LET consecutive == consecutive_errors[s] + 1
           outcome == ErrOutcome(kind, consecutive)
           err == IF outcome = "reconnect_failed"
                  THEN [kind |-> "ShardReconnectFailed", shard_id |-> s,
                        count |-> 0, max |-> 0, cause |-> kind]
                  ELSE [kind |-> "ShardCircuitBroken", shard_id |-> s,
                        count |-> consecutive,
                        max |-> MAX_CONSECUTIVE_ERRORS, cause |-> ""]
       IN  /\ consecutive_errors' = [consecutive_errors EXCEPT ![s] = consecutive]
           /\ streak' = [streak EXCEPT ![s] = @ + 1]
           /\ shards' = set_health(shards, s,
                  IF outcome = "transient" THEN "Disconnected" ELSE "Dead")
           /\ IF ErrReturns(outcome)
              THEN /\ result' = [result EXCEPT ![s] = err]
                   /\ pc' = TaskExit(pc, s)
              ELSE UNCHANGED <<result, pc>>
    /\ recv_errors' = recv_errors + 1
    /\ UNCHANGED <<nats, inflight, rx, run_pc, run_result, shutdowns, limits,
                   publish_outcome, ctor>>

\* Mutant of StreamEnd: the runner marks the shard Dead when its stream ends
StreamEndDead(s) ==
    /\ pc[s] = "recv"
    /\ pc' = TaskExit(pc, s)
    /\ result' = [result EXCEPT ![s] = [Pending EXCEPT !.kind = "Ok", !.shard_id = s]]
    /\ shards' = set_health(shards, s, "Dead")
    /\ UNCHANGED <<nats, consecutive_errors, inflight, rx, run_pc,
                   run_result, shutdowns, streak, recv_errors, limits,
                   publish_outcome, ctor>>

\* next_event yields None: the stream ended, run_shard returns Ok(())
StreamEnd(s) ==
    /\ pc[s] = "recv"
    /\ pc' = TaskExit(pc, s)
    /\ result' = [result EXCEPT ![s] = [Pending EXCEPT !.kind = "Ok", !.shard_id = s]]
    /\ UNCHANGED <<shards, nats, consecutive_errors, inflight, rx, run_pc,
                   run_result, shutdowns, streak, recv_errors, limits,
                   publish_outcome, ctor>>

\* jetstream.publish(..).await completes
SubmitDone(s, ok) ==
    /\ pc[s] = "submit"
    /\ IF ok
       THEN /\ pc' = [pc EXCEPT ![s] = "ack"]
            /\ UNCHANGED <<shards, nats, inflight, publish_outcome, ctor>>
       ELSE /\ nats' = publish_failed(nats)
            /\ shards' = record_route_failure(shards, s)
            /\ inflight' = [inflight EXCEPT ![s] = {}]
            /\ pc' = [pc EXCEPT ![s] = PcAfterPublish(FALSE)]
            /\ \E p \in inflight[s] :
                  publish_outcome' = Returns(s, NatsPublishFailed(p.envelope))
    /\ UNCHANGED <<consecutive_errors, result, rx, run_pc, run_result,
                   shutdowns, streak, recv_errors, limits, ctor>>

\* ack_future.await completes
AckDone(s, ok) ==
    /\ pc[s] = "ack"
    /\ IF ok
       THEN /\ nats' = published(nats)
            /\ shards' = record_route(shards, s)
            /\ publish_outcome' = Returns(s, PublishOk)
       ELSE /\ nats' = publish_failed(nats)
            /\ shards' = record_route_failure(shards, s)
            /\ \E p \in inflight[s] :
                  publish_outcome' = Returns(s, NatsPublishFailed(p.envelope))
    /\ inflight' = [inflight EXCEPT ![s] = {}]
    /\ pc' = [pc EXCEPT ![s] = PcAfterPublish(ok)]
    /\ UNCHANGED <<consecutive_errors, result, rx, run_pc, run_result,
                   shutdowns, streak, recv_errors, limits, ctor>>

\* Mutant of Subscribed: a send reaches the receiver of the first shard only
SubscribedFirstOnly(s) == run_pc = "running" /\ pc[s] # "done" /\ s = 0

\* The receivers a send reaches: those of the tasks that have not finished
Subscribed(s) == run_pc = "running" /\ pc[s] # "done"

\* ShardPool::shutdown: shutdown_tx.send(()), its result discarded
Shutdown ==
    /\ shutdowns < limits.shutdowns
    /\ run_pc = "new" => limits.early
    /\ run_pc # "returned"
    /\ shutdowns' = shutdowns + 1
    /\ rx' = [s \in Shards |-> IF Subscribed(s) THEN rx[s] + 1 ELSE rx[s]]
    /\ UNCHANGED <<shards, nats, pc, consecutive_errors, inflight, result,
                   run_pc, run_result, streak, recv_errors, limits,
                   publish_outcome, ctor>>

\* The task's select! takes the shutdown_rx.recv() branch: the run_shard
\* future is dropped where it is suspended
ObserveShutdown(s) ==
    /\ pc[s] \in {"start", "recv", "submit", "ack"}
    /\ recv_result(rx[s]) # "Pending"
    /\ pc' = TaskExit(pc, s)
    /\ result' = [result EXCEPT ![s] =
          [Pending EXCEPT !.kind = "Cancelled", !.shard_id = s]]
    /\ inflight' = [inflight EXCEPT ![s] = {}]
    /\ UNCHANGED <<shards, nats, consecutive_errors, rx, run_pc, run_result,
                   shutdowns, streak, recv_errors, limits, publish_outcome, ctor>>

\* Mutant of AllJoined: run() stops waiting once one task has completed
AnyJoined == \E s \in Shards : pc[s] = "done"

\* The join loop of run(): every handle has been awaited
AllJoined == \A s \in Shards : pc[s] = "done"

RunReturn ==
    /\ run_pc = "running"
    /\ AllJoined
    /\ run_pc' = "returned"
    /\ run_result' = "Ok"
    /\ UNCHANGED <<shards, nats, pc, consecutive_errors, inflight, result, rx,
                   shutdowns, streak, recv_errors, limits, publish_outcome, ctor>>

Next ==
    \/ Run
    \/ Shutdown
    \/ RunReturn
    \/ \E s \in Shards : Start(s)
    \/ \E s \in Shards : \E ev \in Events : \E ok \in BOOLEAN : RecvOk(s, ev, ok)
    \/ \E s \in Shards : \E kind \in ErrorKinds : RecvErr(s, kind)
    \/ \E s \in Shards : StreamEnd(s)
    \/ \E s \in Shards : \E ok \in BOOLEAN : SubmitDone(s, ok)
    \/ \E s \in Shards : \E ok \in BOOLEAN : AckDone(s, ok)
    \/ \E s \in Shards : ObserveShutdown(s)

Spec == Init /\ [][Next]_vars

\* The runtime polls the tasks whose shutdown receiver holds a message: while
\* there is such a task, one of them eventually completes its select!; and it
\* polls run() once every handle it awaits has completed
FairSpec ==
    /\ Spec
    /\ WF_vars(\E s \in Shards : ObserveShutdown(s))
    /\ WF_vars(RunReturn)

SpecPublish == InitPublish /\ [][Next]_vars

SpecBreaker == InitBreaker /\ [][Next]_vars

\* ---------------------------------------------------------- state API
\* The shard ids a caller of the state operations passes: those of the pool
\* and the id after them, which the pool does not own
StateIds == 0..shard_count(shards)

\* The other variables of a step that only calls a state operation
StateCallOnly ==
    UNCHANGED <<nats, pc, consecutive_errors, inflight, result, rx, run_pc,
                run_result, shutdowns, streak, recv_errors, limits,
                publish_outcome, ctor>>

SetHealth(id, health) ==
    /\ shards' = set_health(shards, id, health)
    /\ StateCallOnly

SetGuilds(id, count) ==
    /\ shards' = set_guilds(shards, id, count)
    /\ StateCallOnly

RecordEvent(id) ==
    /\ total_events_received(shards) < limits.events
    /\ shards' = record_event(shards, id)
    /\ StateCallOnly

RecordRoute(id) ==
    /\ total_events_routed(shards) < limits.events
    /\ shards' = record_route(shards, id)
    /\ StateCallOnly

RecordRouteFailure(id) ==
    /\ SumOver(shards, DOMAIN shards, "route_failures") < limits.events
    /\ shards' = record_route_failure(shards, id)
    /\ StateCallOnly

RecordHeartbeat(id) ==
    /\ shards' = record_heartbeat(shards, id)
    /\ StateCallOnly

\* Any caller, any operation, any argument
NextState ==
    \/ \E id \in StateIds : \E health \in Healths : SetHealth(id, health)
    \/ \E id \in StateIds : \E count \in 0..MaxReadyGuilds : SetGuilds(id, count)
    \/ \E id \in StateIds : RecordEvent(id)
    \/ \E id \in StateIds : RecordRoute(id)
    \/ \E id \in StateIds : RecordRouteFailure(id)
    \/ \E id \in StateIds : RecordHeartbeat(id)

\* A pool of one shard whose state any caller operates on
InitState ==
    /\ Constructed(1)
    /\ limits = [events |-> MaxEvents, errors |-> MaxErrors,
                 shutdowns |-> MaxShutdowns, early |-> FALSE,
                 trace |-> FALSE]

SpecState == InitState /\ [][NextState]_vars

\* A pool of several shards whose healths any caller sets
InitHealth ==
    /\ Constructed(HealthShards)
    /\ limits = [events |-> MaxEvents, errors |-> MaxErrors,
                 shutdowns |-> MaxShutdowns, early |-> FALSE,
                 trace |-> FALSE]

NextHealth == \E id \in StateIds : \E health \in Healths : SetHealth(id, health)

SpecHealth == InitHealth /\ [][NextHealth]_vars

\* ---------------------------------------------------------- readiness
\* nats.close() is called by whoever holds the publisher
Close ==
    /\ nats # None
    /\ nats' = close(nats)
    /\ UNCHANGED <<shards, pc, consecutive_errors, inflight, result, rx,
                   run_pc, run_result, shutdowns, streak, recv_errors, limits,
                   publish_outcome, ctor>>

\* What GET /ready answers in the current state
ReadyView == ready_handler(to_int(ctor.pool_id), shards, nats)

\* A pool of several shards whose healths change, with or without a
\* publisher, which may be closed
NextReady ==
    \/ \E id \in StateIds : \E health \in Healths : SetHealth(id, health)
    \/ Close

SpecReady == InitHealth /\ [][NextReady]_vars

\* A pool of one shard that runs and publishes while the publisher may be
\* closed
NextClose ==
    \/ Next
    \/ Close

SpecClose == InitPublish /\ [][NextClose]_vars


\* ---------------------------------------------------- guild accounting
\* The events that change the guild count
GuildEvents ==
    {[kind |-> "Ready", guilds |-> ScenarioGuilds, unavailable |-> "None"],
     [kind |-> "GuildCreate", guilds |-> 0, unavailable |-> "None"]}
    \cup {[kind |-> "GuildDelete", guilds |-> 0, unavailable |-> u] :
            u \in Unavailables}

\* A pool of two shards without publisher
InitGuilds ==
    /\ Constructed(2)
    /\ nats = None
    /\ limits = [events |-> GuildSteps, errors |-> 0, shutdowns |-> 0,
                 early |-> FALSE, trace |-> FALSE]

\* The runners are spawned and receive guild events only
NextGuilds ==
    \/ Run
    \/ \E s \in Shards : Start(s)
    \/ \E s \in Shards : \E ev \in GuildEvents : RecvOk(s, ev, TRUE)

SpecGuilds == InitGuilds /\ [][NextGuilds]_vars


\* ------------------------------------------------------------- router
\* publish_event(&event) up to its first await, for an envelope of any event
\* type, called where the runner calls it; to_vec_ok is what
\* serde_json::to_vec returns
CallPublish(s, event_type, to_vec_ok) ==
    /\ nats # None
    /\ pc[s] = "recv"
    /\ publish_outcome[s].calls < limits.events
    /\ LET envelope == [event_type |-> event_type, shard_id |-> s, data |-> {}]
       IN  IF to_vec_ok
           THEN /\ pc' = [pc EXCEPT ![s] = PcPublishing]
                /\ inflight' = [inflight EXCEPT ![s] =
                      {[seq |-> shards[s].events_received,
                        envelope |-> envelope]}]
                /\ UNCHANGED <<shards, publish_outcome>>
           ELSE /\ shards' = record_route_failure(shards, s)
                /\ pc' = [pc EXCEPT ![s] = PcAfterPublish(FALSE)]
                /\ publish_outcome' = Returns(s, SerializationFailed(envelope))
                /\ UNCHANGED inflight
    /\ UNCHANGED <<nats, consecutive_errors, result, rx, run_pc, run_result,
                   shutdowns, streak, recv_errors, limits, ctor>>

\* A pool of one shard whose runner publishes envelopes of any event type
NextRoute ==
    \/ Run
    \/ \E s \in Shards : Start(s)
    \/ \E s \in Shards : \E event_type \in EventTypes : \E ok \in BOOLEAN :
          CallPublish(s, event_type, ok)
    \/ \E s \in Shards : \E ok \in BOOLEAN : SubmitDone(s, ok)
    \/ \E s \in Shards : \E ok \in BOOLEAN : AckDone(s, ok)

SpecRoute == InitPublish /\ [][NextRoute]_vars


\* ------------------------------------------------------ repeated shutdown
\* A pool of one or of two shards, shutdown() called repeatedly
InitShutdown ==
    /\ \E n \in PoolSizes : Constructed(n)
    /\ limits = [events |-> MaxEvents, errors |-> 0,
                 shutdowns |-> ShutdownCalls, early |-> FALSE,
                 trace |-> FALSE]

\* The runners receive guild joins and publish them, their streams neither
\* fail nor end: only the shutdown signal stops them
NextShutdown ==
    \/ Run
    \/ Shutdown
    \/ RunReturn
    \/ \E s \in Shards : Start(s)
    \/ \E s \in Shards : \E ok \in BOOLEAN :
          RecvOk(s, [kind |-> "GuildCreate", guilds |-> 0,
                     unavailable |-> "None"], ok)
    \/ \E s \in Shards : \E ok \in BOOLEAN : SubmitDone(s, ok)
    \/ \E s \in Shards : \E ok \in BOOLEAN : AckDone(s, ok)
    \/ \E s \in Shards : ObserveShutdown(s)

FairShutdown ==
    /\ InitShutdown /\ [][NextShutdown]_vars
    /\ WF_vars(\E s \in Shards : ObserveShutdown(s))
    /\ WF_vars(RunReturn)

\* ------------------------------------------------------ shared publisher
\* The events the serializer forwards, one routed to COMMANDS and one to
\* EVENTS
SharedEvents ==
    {[kind |-> "GuildCreate", guilds |-> 0, unavailable |-> "None"],
     [kind |-> "InteractionCreate", guilds |-> 0, unavailable |-> "None"]}

\* A pool of two shards whose runners share one publisher (self.nats.clone()
\* in run), each stream delivering events that are published
InitShared ==
    /\ Constructed(2)
    /\ nats # None
    /\ limits = [events |-> SharedSteps, errors |-> 0, shutdowns |-> 0,
                 early |-> FALSE, trace |-> FALSE]

NextShared ==
    \/ Run
    \/ \E s \in Shards : Start(s)
    \/ \E s \in Shards : \E ev \in SharedEvents : \E ok \in BOOLEAN :
          RecvOk(s, ev, ok)
    \/ \E s \in Shards : \E ok \in BOOLEAN : SubmitDone(s, ok)
    \/ \E s \in Shards : \E ok \in BOOLEAN : AckDone(s, ok)

SpecShared == InitShared /\ [][NextShared]_vars


\* --------------------------------------------------------- early shutdown
\* A pool of one or of two shards whose owner may call shutdown() before
\* run(), the only moment at which it holds the pool: run(self) consumes it
InitEarly ==
    /\ \E n \in PoolSizes : Constructed(n)
    /\ limits = [events |-> MaxEvents, errors |-> 0,
                 shutdowns |-> ShutdownCalls, early |-> TRUE,
                 trace |-> FALSE]

\* run() is called; the runtime polls the tasks whose receiver holds a
\* message and polls run() once every handle has completed
FairEarly ==
    /\ InitEarly /\ [][NextShutdown]_vars
    /\ WF_vars(Run)
    /\ WF_vars(\E s \in Shards : ObserveShutdown(s))
    /\ WF_vars(RunReturn)


\* ---------------------------------------------------------- degraded mode
\* The process as main sets it up: the publisher is what the configured URL
\* and the outcome of the initial connect give, the pool has several shards
InitDegraded ==
    /\ InitHealth
    /\ \E nats_url \in NatsUrls : \E connect_ok \in BOOLEAN :
          nats = main_nats(nats_url, connect_ok)

SpecDegraded == InitDegraded /\ [][NextReady]_vars


\* -------------------------------------------------------- constructor
\* The pool ids and the shard totals a deployment can configure (POOL_ID and
\* TOTAL_SHARDS are any u64): small ones, the ones around 2^32, and the ones
\* at which pool_id * 25 or (pool_id + 1) * 25 leaves 64 bits
PoolIds ==
    {u64(0), u64(1), u64(3), u64(4),
     <<28835, 2621, 0, 0>>,               \* floor((2^32 - 1) / 25)
     <<15728, 55050, 28835, 2621>>,       \* floor((2^64 - 1) / 25)
     <<15729, 55050, 28835, 2621>>,       \* ceil(2^64 / 25)
     <<65535, 65535, 65535, 65535>>}      \* 2^64 - 1

TotalShardsInputs ==
    {u64(0), u64(1), u64(10), u64(25), u64(26), u64(100),
     <<65534, 65535, 0, 0>>,              \* 2^32 - 2
     <<65535, 65535, 0, 0>>,              \* 2^32 - 1
     <<0, 0, 1, 0>>,                      \* 2^32
     <<1, 0, 1, 0>>,                      \* 2^32 + 1
     <<65535, 65535, 65535, 65535>>}      \* 2^64 - 1

\* Before the call: the arguments are chosen, no pool exists
InitNew ==
    /\ ctor \in [pool_id : PoolIds, total_shards : TotalShardsInputs,
                  overflow_checks : BOOLEAN, out : {NotCalled}]
    /\ shards = NewShardState({})
    /\ nats = None
    /\ pc = [s \in {} |-> "unspawned"]
    /\ consecutive_errors = [s \in {} |-> 0]
    /\ inflight = [s \in {} |-> {}]
    /\ result = [s \in {} |-> Pending]
    /\ rx = [s \in {} |-> 0]
    /\ run_pc = "new"
    /\ run_result = "Pending"
    /\ shutdowns = 0
    /\ streak = [s \in {} |-> 0]
    /\ recv_errors = 0
    /\ publish_outcome = [s \in {} |-> NoCall]
    /\ limits = [events |-> 0, errors |-> 0, shutdowns |-> 0, early |-> FALSE,
                 trace |-> FALSE]

\* ShardPool::new(pool_id, total_shards, ..) is called and returns
New ==
    /\ ctor.out = NotCalled
    /\ ctor' = [ctor EXCEPT !.out = new(ctor.pool_id, ctor.total_shards,
                                        ctor.overflow_checks)]
    /\ UNCHANGED <<shards, nats, pc, consecutive_errors, inflight, result, rx,
                   run_pc, run_result, shutdowns, streak, recv_errors, limits,
                   publish_outcome>>

NextNew == New

SpecNew == InitNew /\ [][NextNew]_vars

\* ------------------------------------------------------------- claims
FatalKinds == {"ShardCircuitBroken", "ShardReconnectFailed"}

\* C1: consecutive_errors is the number of receive errors since the last
\* successfully received event; a runner has returned ShardCircuitBroken only
\* with the shard Dead, after exactly MAX_CONSECUTIVE_ERRORS consecutive
\* errors and with count = max = 10; and the 10th consecutive error always
\* ends the runner, so a running runner has seen fewer than 10 in a row.
C1_CircuitBreaker ==
    \A s \in Shards :
        /\ consecutive_errors[s] = streak[s]
        /\ result[s].kind = "ShardCircuitBroken" =>
              /\ streak[s] = MAX_CONSECUTIVE_ERRORS
              /\ shards[s].health = "Dead"
              /\ result[s] = [kind |-> "ShardCircuitBroken", shard_id |-> s,
                              count |-> 10, max |-> 10, cause |-> ""]
        /\ streak[s] >= MAX_CONSECUTIVE_ERRORS => result[s].kind \in FatalKinds
        /\ result[s].kind \notin FatalKinds => streak[s] < MAX_CONSECUTIVE_ERRORS

\* C1 witness: the breaker tripped on a shard that had received more than 10
\* errors in total (an Ok item in between had reset the counter)
C1_Witness ==
    \E s \in Shards :
        /\ result[s].kind = "ShardCircuitBroken"
        /\ recv_errors > MAX_CONSECUTIVE_ERRORS
        /\ shards[s].events_received > 0

\* C2: every receipt of a reconnect-fatal error marks the shard Dead and ends
\* the runner with ShardReconnectFailed{shard_id, cause}, whatever the counter
C2_ReconnectFatal ==
    [][\A s \in Shards :
          RecvErr(s, "Reconnect") =>
              /\ shards'[s].health = "Dead"
              /\ pc'[s] = "done"
              /\ result'[s] = [kind |-> "ShardReconnectFailed", shard_id |-> s,
                               count |-> 0, max |-> 0, cause |-> "Reconnect"]]_vars

\* C2 witness: the reconnect-fatal error was the 10th consecutive error
C2_Witness ==
    \E s \in Shards :
        /\ result[s].kind = "ShardReconnectFailed"
        /\ streak[s] = MAX_CONSECUTIVE_ERRORS

\* C3: Dead is terminal: a shard whose health is Dead is Dead after every step
C3_DeadTerminal ==
    [][\A s \in Shards :
          shards[s].health = "Dead" => shards'[s].health = "Dead"]_vars

\* C3 witness: run() has returned with one shard Dead while another shard
\* received an event
C3_Witness ==
    /\ run_pc = "returned"
    /\ \E s \in Shards : \E t \in Shards \ {s} :
          /\ shards[s].health = "Dead"
          /\ shards[t].events_received > 0

\* C4: a step that records a failed publish of shard s (its route_failures
\* grows) leaves the runner of s awaiting the next item of its stream, with
\* no result
C4_PublishFailureContinues ==
    [][\A s \in Shards :
          shards'[s].route_failures > shards[s].route_failures =>
              /\ pc'[s] = "recv"
              /\ result'[s] = Pending]_vars

\* C4 witness: a second publish of the same shard failed after the first had
\* failed
C4_Witness == \E s \in Shards : shards[s].route_failures >= 2

\* C5: a step that records a failed publish of shard s adds exactly 1 to the
\* publisher's publish_failures and to the shard's route_failures, and leaves
\* events_routed and the health of the shard unchanged
C5_FailedPublishCounts ==
    [][\A s \in Shards :
          shards'[s].route_failures # shards[s].route_failures =>
              /\ nats # None
              /\ nats'[1].publish_failures = nats[1].publish_failures + 1
              /\ shards'[s].route_failures = shards[s].route_failures + 1
              /\ shards'[s].events_routed = shards[s].events_routed
              /\ shards'[s].health = shards[s].health]_vars

\* C6: a runner that is publishing (awaiting the submit or the
\* acknowledgement) is not stopped by the shutdown signal
C6_NoStopMidPublish ==
    [][\A s \in Shards :
          pc[s] \in {"submit", "ack"} => result'[s].kind # "Cancelled"]_vars

\* C7: once a shutdown has been sent while the runners run, every task ends
\* and run() returns
ShutdownDelivered == run_pc = "running" /\ \E s \in Shards : rx[s] > 0

Returned == run_pc = "returned" /\ \A s \in Shards : pc[s] = "done"

C7_ShutdownTerminates == ShutdownDelivered ~> Returned

\* C7 witness: run() has returned and a runner was stopped by the signal
C7_Witness ==
    /\ run_pc = "returned"
    /\ \E s \in Shards : result[s].kind = "Cancelled" /\ rx[s] > 0

\* C8: the step in which one shard's runner returns an error changes nothing
\* of the other shards: their tasks stay where they are, and their entries,
\* results, counters and in-flight publishes are unchanged
C8_FailureIsolated ==
    [][\A s \in Shards :
          (result[s].kind \notin FatalKinds /\ result'[s].kind \in FatalKinds) =>
              \A t \in Shards \ {s} :
                  /\ pc'[t] = pc[t]
                  /\ shards'[t] = shards[t]
                  /\ result'[t] = result[t]
                  /\ consecutive_errors'[t] = consecutive_errors[t]
                  /\ inflight'[t] = inflight[t]]_vars

\* C8 witness: one shard is Dead with its runner returned in error while
\* the runner of another shard has received an event, is Ready and awaits
\* the next item of its stream
C8_Witness ==
    \E s \in Shards : \E t \in Shards \ {s} :
        /\ result[s].kind \in FatalKinds
        /\ shards[s].health = "Dead"
        /\ shards[t].health = "Ready"
        /\ shards[t].events_received > 0
        /\ pc[t] = "recv"

\* C9: run() has returned only if every task has completed, and it returned Ok
C9_RunReturnsAfterAll ==
    /\ run_pc = "returned" =>
          /\ \A s \in Shards : pc[s] = "done" /\ result[s].kind # "Pending"
          /\ run_result = "Ok"
    /\ run_pc # "returned" => run_result = "Pending"

\* C9 witness: run() returned Ok although a runner had returned an error
C9_Witness ==
    /\ run_pc = "returned"
    /\ run_result = "Ok"
    /\ \E s \in Shards : result[s].kind \in FatalKinds

\* C10: a shard has at most one publish in flight, the runner awaits it, and
\* it is the publish of the last event the shard received: no later event is
\* taken from the stream, hence none published, before it completes
C10_SequentialPublish ==
    \A s \in Shards :
        /\ Cardinality(inflight[s]) <= 1
        /\ \A p \in inflight[s] :
              /\ p.seq = shards[s].events_received
              /\ p.envelope.shard_id = s
              /\ pc[s] \in {"submit", "ack"}
        /\ pc[s] \in {"submit", "ack"} => inflight[s] # {}

\* C10 witness: the second event of a shard is being published after the
\* publish of its first event completed
C10_Witness ==
    \E s \in Shards : \E p \in inflight[s] :
        /\ p.seq = 2
        /\ shards[s].events_routed + shards[s].route_failures = 1

\* C11: every call of publish_event that returns has added 1 to exactly one
\* of the publisher's counters: to messages_published when it returned Ok, to
\* publish_failures when it returned an error, and nothing to the other
C11_PublishCounts ==
    [][\A s \in Shards :
          publish_outcome'[s].calls # publish_outcome[s].calls =>
              /\ nats # None
              /\ IF publish_outcome'[s].kind = "Ok"
                 THEN /\ nats'[1].messages_published = nats[1].messages_published + 1
                      /\ nats'[1].publish_failures = nats[1].publish_failures
                 ELSE /\ nats'[1].publish_failures = nats[1].publish_failures + 1
                      /\ nats'[1].messages_published = nats[1].messages_published]_vars

\* C12: when serde_json::to_vec fails, publish_event returns
\* SerializationFailed with the envelope's event_type and shard_id, and no
\* publish is issued to the broker: none is in flight, the runner is back at
\* its stream and the publisher is untouched
C12_SerializationFailed ==
    [][\A s \in Shards : \A ev \in Events :
          (nats # None /\ serialize_event(ev, s) # None /\ RecvOk(s, ev, FALSE)) =>
              /\ publish_outcome'[s] =
                    [calls |-> publish_outcome[s].calls + 1,
                     kind |-> "SerializationFailed",
                     event_type |-> serialize_event(ev, s)[1].event_type,
                     shard_id |-> s, subject |-> ""]
              /\ publish_outcome'[s].event_type # ""
              /\ inflight'[s] = {}
              /\ pc'[s] = "recv"
              /\ nats' = nats]_vars

\* C12 witness: the second call of publish_event of a shard returned
\* SerializationFailed for a member.update envelope
C12_Witness ==
    \E s \in Shards :
        /\ publish_outcome[s].kind = "SerializationFailed"
        /\ publish_outcome[s].event_type = "member.update"
        /\ publish_outcome[s].shard_id = s
        /\ publish_outcome[s].calls = 2

\* C13: publish_event returns Ok only from the await of the acknowledgement;
\* a failed acknowledgement returns NatsPublishFailed with the routed subject
\* and adds nothing to messages_published or events_routed; and events_routed
\* grows only in the step in which publish_event returns Ok
C13_AckBeforeOk ==
    [][\A s \in Shards :
          /\ AckDone(s, FALSE) =>
                /\ \E p \in inflight[s] :
                      /\ publish_outcome'[s].kind = "NatsPublishFailed"
                      /\ publish_outcome'[s].subject = route_event(p.envelope.event_type)
                      /\ publish_outcome'[s].subject # ""
                /\ nats'[1].messages_published = nats[1].messages_published
                /\ shards'[s].events_routed = shards[s].events_routed
          /\ (/\ publish_outcome'[s].calls # publish_outcome[s].calls
              /\ publish_outcome'[s].kind = "Ok") =>
                /\ pc[s] = "ack"
                /\ nats'[1].messages_published = nats[1].messages_published + 1
          /\ shards'[s].events_routed # shards[s].events_routed =>
                /\ pc[s] = "ack"
                /\ publish_outcome'[s].calls = publish_outcome[s].calls + 1
                /\ publish_outcome'[s].kind = "Ok"]_vars

\* C13 witness: after an acknowledged publish, a publish of a guild.join
\* envelope failed at the broker
C13_Witness ==
    \E s \in Shards :
        /\ publish_outcome[s].kind = "NatsPublishFailed"
        /\ publish_outcome[s].subject = "events.guild.join"
        /\ shards[s].events_routed = 1
        /\ shards[s].route_failures = 1
        /\ nats[1].messages_published = 1

\* Exact integers for the statement of the ranges: five limbs, so that 25
\* times a u64 and the sums below never leave them
ExactMul(x, k) ==
    LET v1 == x[1] * k
        v2 == x[2] * k + (v1 \div LIMB)
        v3 == x[3] * k + (v2 \div LIMB)
        v4 == x[4] * k + (v3 \div LIMB)
    IN  <<v1 % LIMB, v2 % LIMB, v3 % LIMB, v4 % LIMB, v4 \div LIMB>>

ExactAdd(y, k) ==
    LET v1 == y[1] + k
        v2 == y[2] + (v1 \div LIMB)
        v3 == y[3] + (v2 \div LIMB)
        v4 == y[4] + (v3 \div LIMB)
    IN  <<v1 % LIMB, v2 % LIMB, v3 % LIMB, v4 % LIMB, y[5] + (v4 \div LIMB)>>

Exact(x) == <<x[1], x[2], x[3], x[4], 0>>

ExactLt(a, b) ==
    \/ a[5] < b[5]
    \/ a[5] = b[5] /\ lt_u64(a, b)

\* The integers of [pool_id * 25, min((pool_id + 1) * 25, total_shards))
IntegerRange(pool_id, total_shards) ==
    LET first == ExactMul(pool_id, 25)
        past == ExactAdd(first, 25)
        bound == IF ExactLt(Exact(total_shards), past)
                 THEN Exact(total_shards) ELSE past
    IN  {ExactAdd(first, k) : k \in {j \in 0..24 : ExactLt(ExactAdd(first, j), bound)}}

\* The integers first .. first + count - 1, for small numbers
Interval(first, count) == {Exact(u64(first + k)) : k \in 0..(count - 1)}

\* C15: the shard ids of the pool the constructor returns are exactly the
\* integers of [pool_id * 25, min((pool_id + 1) * 25, total_shards)), for
\* every pool_id and total_shards; and the four ranges the claim names are
\* [0,25), [75,100), the empty range and [0,10)
C15_ShardRange ==
    /\ ctor.out.kind = "Ok" =>
          {Exact(id) : id \in ctor.out.shard_ids} =
              IntegerRange(ctor.pool_id, ctor.total_shards)
    /\ IntegerRange(u64(0), u64(100)) = Interval(0, 25)
    /\ IntegerRange(u64(3), u64(100)) = Interval(75, 25)
    /\ IntegerRange(u64(4), u64(100)) = {}
    /\ IntegerRange(u64(0), u64(10)) = Interval(0, 10)

\* C16: the constructor returns ShardIdOverflow with the value of
\* total_shards whenever total_shards is 2^32 or more, it returns a pool for
\* total_shards = 2^32 - 1, and the shard ids of every pool it returns fit in
\* 32 bits
C16_ShardIdOverflow ==
    ctor.out # NotCalled =>
        /\ ~fits_u32(ctor.total_shards) =>
              /\ ctor.out.kind = "ShardIdOverflow"
              /\ ctor.out.value = ctor.total_shards
        /\ ctor.total_shards = <<65535, 65535, 0, 0>> => ctor.out.kind = "Ok"
        /\ ctor.out.kind = "Ok" => \A id \in ctor.out.shard_ids : fits_u32(id)

\* C14: the keys of the state are the shard ids the constructor computed,
\* whatever state operations were called with whatever shard id
C14_KeySetFixed ==
    /\ DOMAIN shards = {to_int(id) : id \in ctor.out.shard_ids}
    /\ DOMAIN shards = shard_ids(0, to_int(ctor.total_shards))

\* C14 witness: every operation has acted on the entry of shard 0, with ids
\* outside the pool among the callers' arguments
C14_Witness ==
    /\ 1 \in StateIds \ DOMAIN shards
    /\ shards[0].health = "Resuming"
    /\ shards[0].guilds > 0
    /\ shards[0].events_received > 0
    /\ shards[0].events_routed > 0
    /\ shards[0].route_failures > 0
    /\ shards[0].last_heartbeat # None
    /\ shards[0].connected_at # None

Counters == {"events_received", "events_routed", "route_failures"}

C18_ReadyHealthyCount ==
    /\ ready_shards(shards) <= healthy_shards(shards)
    /\ healthy_shards(shards) <= shard_count(shards)

\* C18 witness: both inequalities are strict: a Ready shard, a Resuming one
\* and one that is neither
C18_Witness ==
    /\ 0 < ready_shards(shards)
    /\ ready_shards(shards) < healthy_shards(shards)
    /\ healthy_shards(shards) < shard_count(shards)

\* C19: is_ready() is true exactly when some shard is Ready, that is when
\* ready_shards() >= 1; it is false when every shard is Connecting
C19_PoolReady ==
    /\ is_ready(shards) <=> (\E s \in Shards : shards[s].health = "Ready")
    /\ is_ready(shards) <=> ready_shards(shards) >= 1
    /\ (\A s \in Shards : shards[s].health = "Connecting") => ~is_ready(shards)

\* C19 witness: one shard is Ready, all the others are Connecting, and the
\* pool is ready
C19_Witness ==
    /\ is_ready(shards)
    /\ shard_count(shards) > 1
    /\ \E s \in Shards :
          /\ shards[s].health = "Ready"
          /\ \A t \in Shards \ {s} : shards[t].health = "Connecting"

\* C20: connected_at, once set, is never changed or cleared; it is set in the
\* step that makes the shard Ready for the first time, and in no other
C20_ConnectedAtOnce ==
    [][\A s \in Shards :
          /\ shards[s].connected_at # None =>
                shards'[s].connected_at = shards[s].connected_at
          /\ (shards[s].connected_at = None /\ shards'[s].health = "Ready") =>
                shards'[s].connected_at # None
          /\ (shards[s].connected_at = None /\ shards'[s].connected_at # None) =>
                shards'[s].health = "Ready"]_vars

\* C20 witness: a shard that became Ready before any event is Ready after
\* an event was received, with the connected_at of the first time
C20_Witness ==
    \E s \in Shards :
        /\ shards[s].health = "Ready"
        /\ shards[s].connected_at = Some(0)
        /\ shards[s].events_received > 0

C22_GuildAccounting ==
    [][\A s \in Shards :
          (\A t \in Shards \ {s} : shards[t].guilds = 0) =>
              \A ev \in GuildEvents :
                  RecvOk(s, ev, TRUE) =>
                      total_guilds(shards') =
                          CASE ev.kind = "Ready" -> ev.guilds
                            [] ev.kind = "GuildCreate" ->
                                  total_guilds(shards) + 1
                            [] ev.kind = "GuildDelete"
                                  /\ ev.unavailable # "Some(true)"
                                  /\ total_guilds(shards) > 0 ->
                                  total_guilds(shards) - 1
                            [] OTHER -> total_guilds(shards)]_vars

\* C22 witness: shard 0 has received two events, the Ready with its guilds
\* and a GuildCreate, and the total is one more than the Ready's guilds
C22_Witness ==
    /\ shards[0].events_received = 2
    /\ \A t \in Shards \ {0} : shards[t].guilds = 0 /\ shards[t].events_received = 0
    /\ total_guilds(shards) = ScenarioGuilds + 1

\* The subject the routing table names for an event type: the seven fixed
\* ones, and for any other type events. followed by the type with _ for .
ExpectedSubject(event_type) ==
    CASE event_type = "interaction.create" -> "commands.interaction"
      [] event_type = "guild.join" -> "events.guild.join"
      [] event_type = "guild.leave" -> "events.guild.leave"
      [] event_type = "guild.update" -> "events.guild.update"
      [] event_type = "member.join" -> "events.member.join"
      [] event_type = "member.leave" -> "events.member.leave"
      [] event_type = "member.update" -> "events.member.update"
      [] event_type = "a.b.c" -> "events.a_b_c"
      [] event_type = "Guild.Join" -> "events.Guild_Join"
      [] event_type = "guild.joined" -> "events.guild_joined"
      [] event_type = "guild.join.x" -> "events.guild_join_x"
      [] event_type = "message.create" -> "events.message_create"
      [] event_type = "guild" -> "events.guild"
      [] event_type = "interaction" -> "events.interaction"

\* C23: the router maps each of the seven fixed event types to its subject
\* and every other event type, also one that differs from a fixed type in
\* case or by a suffix, to events. followed by the type with every . replaced
\* by _; the subject a failed publish reports is that function of the event
\* type of the envelope that was submitted, and of nothing else
C23_RouteEvent ==
    [][/\ \A event_type \in EventTypes :
             route_event(event_type) = ExpectedSubject(event_type)
       /\ \A s \in Shards :
             (/\ publish_outcome'[s].calls # publish_outcome[s].calls
              /\ publish_outcome'[s].kind = "NatsPublishFailed") =>
                 \E p \in inflight[s] :
                     publish_outcome'[s].subject =
                         ExpectedSubject(p.envelope.event_type)]_vars

\* C23 witness: a publish of an envelope of type a.b.c failed at the broker
\* and reports the subject events.a_b_c
C23_Witness ==
    \E s \in Shards :
        /\ publish_outcome[s].kind = "NatsPublishFailed"
        /\ publish_outcome[s].subject = "events.a_b_c"

\* The events the serializer does not forward: the ones it names, and the
\* ones it does not recognise
DroppedKinds ==
    {"Ready", "GatewayHeartbeat", "GatewayHeartbeatAck", "GatewayHello",
     "GatewayInvalidateSession", "GatewayReconnect", "Resumed", "MessageCreate"}

\* C24: the serializer yields no envelope for a dropped event; the runner
\* that receives one counts it in events_received, changes neither
\* events_routed nor route_failures, calls no publish_event and goes on to
\* the next event; a Ready still sets the health and the guild count
C24_DroppedEvents ==
    [][\A s \in Shards : \A ev \in Events : \A ok \in BOOLEAN :
          (ev.kind \in DroppedKinds /\ RecvOk(s, ev, ok)) =>
              /\ serialize_event(ev, s) = None
              /\ shards'[s].events_received = shards[s].events_received + 1
              /\ shards'[s].events_routed = shards[s].events_routed
              /\ shards'[s].route_failures = shards[s].route_failures
              /\ UNCHANGED <<nats, inflight, publish_outcome>>
              /\ pc'[s] = "recv"
              /\ ev.kind = "Ready" =>
                    /\ shards'[s].health = "Ready"
                    /\ shards'[s].guilds = ev.guilds]_vars

\* C24 witness: with a publisher configured, a shard has received a Ready
\* with guilds and one more dropped event, and nothing was published or
\* failed
C24_Witness ==
    \E s \in Shards :
        /\ nats # None
        /\ shards[s].events_received = 2
        /\ shards[s].health = "Ready"
        /\ shards[s].guilds > 0
        /\ shards[s].last_heartbeat # None
        /\ shards[s].events_routed = 0
        /\ shards[s].route_failures = 0
        /\ nats[1].messages_published = 0
        /\ nats[1].publish_failures = 0
        /\ publish_outcome[s].calls = 0

\* C25: every envelope a runner submits for an InteractionCreate event, which
\* is the envelope the serializer returned for it, has event_type
\* interaction.create and a data object with exactly the fields
\* interaction_id, interaction_type and interaction_token, and so no field
\* named token
C25_InteractionFields ==
    \A s \in Shards : \A p \in inflight[s] :
        LET ev == [kind |-> "InteractionCreate", guilds |-> 0,
                   unavailable |-> "None"]
        IN  p.envelope = serialize_event(ev, s)[1] =>
                /\ p.envelope.event_type = "interaction.create"
                /\ p.envelope.data =
                      {"interaction_id", "interaction_type", "interaction_token"}
                /\ "token" \notin p.envelope.data

\* C26: once shutdown() has been called a second time while the runners run,
\* every task ends and run() returns, as after a single call: the second
\* call keeps no runner from observing the shutdown
RepeatedShutdown == run_pc = "running" /\ \E s \in Shards : rx[s] >= 2

C26_ShutdownIdempotent == RepeatedShutdown ~> Returned

\* C26 witness: run() has returned and a runner was stopped by the signal
\* after two calls of shutdown() had reached its receiver
C26_Witness ==
    /\ run_pc = "returned"
    /\ shutdowns >= 2
    /\ \E s \in Shards : result[s].kind = "Cancelled" /\ rx[s] >= 2

\* C28: a receive error that is not reconnect-fatal and not the 10th in a row
\* sets the health of the shard to Disconnected and leaves its counters, its
\* guild count and its last heartbeat; nothing is published, no result is
\* returned, and the runner waits for the next item of the stream
C28_TransientError ==
    [][\A s \in Shards : \A kind \in ErrorKinds :
          (/\ kind # "Reconnect"
           /\ consecutive_errors[s] + 1 < MAX_CONSECUTIVE_ERRORS
           /\ RecvErr(s, kind)) =>
              /\ shards'[s] = [shards[s] EXCEPT !.health = "Disconnected"]
              /\ \A t \in Shards \ {s} : shards'[t] = shards[t]
              /\ UNCHANGED <<nats, inflight, publish_outcome, result>>
              /\ pc'[s] = "recv"
              /\ consecutive_errors'[s] = consecutive_errors[s] + 1]_vars

\* C28 witness: a shard that had become Ready with guilds is Disconnected
\* after nine errors in a row, with its counter and its guilds as they were,
\* and its runner waits for the next item
C28_Witness ==
    \E s \in Shards :
        /\ shards[s].health = "Disconnected"
        /\ consecutive_errors[s] = MAX_CONSECUTIVE_ERRORS - 1
        /\ shards[s].events_received = 1
        /\ shards[s].guilds > 0
        /\ shards[s].connected_at # None
        /\ pc[s] = "recv"

\* C29: a Ready event makes the health of the shard Ready and its guild count
\* the number of guilds of the payload, whatever the count was; a Resumed
\* event makes the health Ready and leaves the guild count; in both cases
\* whatever the health was
C29_ReadyResumed ==
    [][\A s \in Shards : \A ev \in Events : \A ok \in BOOLEAN :
          RecvOk(s, ev, ok) =>
              /\ ev.kind = "Ready" =>
                    /\ shards'[s].health = "Ready"
                    /\ shards'[s].guilds = ev.guilds
              /\ ev.kind = "Resumed" =>
                    /\ shards'[s].health = "Ready"
                    /\ shards'[s].guilds = shards[s].guilds]_vars

\* C29 witness: a shard that became Ready with its first event and has seen a
\* receive error is Ready after its second event, with the guild count 0 of a
\* Ready payload
C29_Witness ==
    \E s \in Shards :
        /\ shards[s].health = "Ready"
        /\ shards[s].guilds = 0
        /\ shards[s].events_received = 2
        /\ shards[s].connected_at = Some(1)
        /\ recv_errors = 1
        /\ consecutive_errors[s] = 0

\* C30: with no publisher configured, events_routed and route_failures of
\* every shard are 0 and no publish is in flight, in every state; and every
\* event a runner receives is still counted and handled: a Ready sets health
\* and guild count, a heartbeat ack sets last_heartbeat
C30_NoPublisher ==
    [][nats = None =>
          /\ \A s \in Shards :
                /\ shards'[s].events_routed = 0
                /\ shards'[s].route_failures = 0
                /\ inflight'[s] = {}
                /\ pc'[s] \notin {"submit", "ack"}
                /\ publish_outcome'[s].calls = 0
          /\ nats' = None
          /\ \A s \in Shards : \A ev \in Events : \A ok \in BOOLEAN :
                RecvOk(s, ev, ok) =>
                    /\ shards'[s].events_received = shards[s].events_received + 1
                    /\ ev.kind = "Ready" =>
                          /\ shards'[s].health = "Ready"
                          /\ shards'[s].guilds = ev.guilds
                    /\ ev.kind = "GatewayHeartbeatAck" =>
                          shards'[s].last_heartbeat # None
                    /\ ev.kind = "GuildCreate" =>
                          shards'[s].guilds = total_guilds(shards) + 1]_vars

\* C30 witness: without publisher, a shard has received a Ready with guilds
\* and a GuildCreate, which a publisher would have been given
C30_Witness ==
    \E s \in Shards :
        /\ nats = None
        /\ shards[s].events_received = 2
        /\ shards[s].health = "Ready"
        /\ shards[s].guilds = 2
        /\ shards[s].events_routed = 0
        /\ shards[s].route_failures = 0

\* C31: for every shard, in every reachable state, events_routed +
\* route_failures <= events_received: an event is counted as received before
\* its publish is issued, and it adds at most one to exactly one of the two
\* counters, so a publish that has not returned is not yet counted by either.
C31_RoutedWithinReceived ==
    \A s \in Shards :
        /\ shards[s].events_routed + shards[s].route_failures
              <= shards[s].events_received
        /\ pc[s] \in {"submit", "ack"} =>
              /\ shards[s].events_routed + shards[s].route_failures
                    < shards[s].events_received
              /\ \A p \in inflight[s] : p.seq = shards[s].events_received

\* Two events were received; one was routed and the other failed
C31_Witness ==
    \E s \in Shards :
        /\ shards[s].events_received = 2
        /\ shards[s].events_routed = 1
        /\ shards[s].route_failures = 1

\* No runner is inside a call of publish_event
NoPublishInProgress == \A s \in Shards : pc[s] \notin {"submit", "ack"}

\* C32: with one publisher shared by the runners of a pool, messages_published
\* is at least the sum of events_routed over the shards and publish_failures
\* at least the sum of route_failures, with equality in both whenever no call
\* of publish_event is in progress.
C32_CountersAgree ==
    nats # None =>
        LET routed == total_events_routed(shards)
            failed == SumOver(shards, DOMAIN shards, "route_failures")
        IN  /\ nats[1].messages_published >= routed
            /\ nats[1].publish_failures >= failed
            /\ NoPublishInProgress =>
                  /\ nats[1].messages_published = routed
                  /\ nats[1].publish_failures = failed

\* C33: whatever guild counts the shards of the pool hold, a GuildCreate event
\* handled by one runner in one piece makes total_guilds() exactly 1 greater,
\* and a GuildDelete whose unavailable is not true makes it exactly 1 smaller,
\* or leaves it 0.
C33_GuildDelta ==
    [][\A s \in Shards : \A ev \in GuildEvents :
          RecvOk(s, ev, TRUE) =>
              /\ ev.kind = "GuildCreate" =>
                    total_guilds(shards') = total_guilds(shards) + 1
              /\ ev.kind = "GuildDelete" /\ ev.unavailable # "Some(true)" =>
                    total_guilds(shards') =
                        IF total_guilds(shards) > 0
                        THEN total_guilds(shards) - 1 ELSE 0]_vars

\* The healths run_shard passes to set_health
RunnerHealths == {"Connecting", "Ready", "Disconnected", "Dead"}

\* C34: the runner never sets a health to Resuming: in every reachable state
\* of a running pool every shard's health is Connecting, Ready, Disconnected
\* or Dead, and healthy_shards() = ready_shards().
C34_NeverResuming ==
    /\ \A s \in Shards : shards[s].health \in RunnerHealths
    /\ healthy_shards(shards) = ready_shards(shards)

\* One shard is Ready after the one event it received while another is
\* Disconnected: one shard healthy, the same one ready
C34_Witness ==
    /\ \E s \in Shards :
          /\ shards[s].health = "Ready"
          /\ shards[s].events_received = 1
          /\ shards[s].connected_at # None
          /\ \E t \in Shards \ {s} : shards[t].health = "Disconnected"
    /\ healthy_shards(shards) = 1
    /\ ready_shards(shards) = 1

\* C35: a shard that a transient receive error left Disconnected stays
\* Disconnected, counted neither ready nor healthy, while it successfully
\* receives events other than Ready and Resumed, which are counted and
\* published as usual; only a Ready or a Resumed event makes it Ready again
\* (and only a fatal receive error makes it Dead).
C35_DisconnectedUntilReady ==
    [][\A s \in Shards :
          shards[s].health = "Disconnected" =>
              /\ ~is_healthy(shards[s].health)
              /\ ~is_ready_health(shards[s].health)
              /\ \A ev \in Events : \A ok \in BOOLEAN :
                    (pc[s] = "recv" /\ ev.kind \notin {"Ready", "Resumed"}
                        /\ RecvOk(s, ev, ok)) =>
                        /\ shards'[s].health = "Disconnected"
                        /\ shards'[s].events_received =
                              shards[s].events_received + 1
                        /\ (nats # None /\ ok /\ serialize_event(ev, s) # None)
                              => pc'[s] = "submit"
              /\ shards'[s].health # "Disconnected" =>
                    \/ shards'[s].health = "Dead"
                    \/ /\ shards'[s].health = "Ready"
                       /\ \E ev \in Events : \E ok \in BOOLEAN :
                             /\ ev.kind \in {"Ready", "Resumed"}
                             /\ RecvOk(s, ev, ok)]_vars

\* After the error the shard received an event, which was published and
\* acknowledged, and it is still Disconnected
C35_Witness ==
    \E s \in Shards :
        /\ shards[s].health = "Disconnected"
        /\ streak[s] = 0
        /\ shards[s].events_received >= 1
        /\ shards[s].events_routed = 1

\* C36: a runner that stops because its stream ended (Ok) or because the
\* shutdown signal arrived (Cancelled) leaves the shard's entry as it was, and
\* once a runner has stopped, for whatever reason, the shard's entry (health,
\* guilds, counters, timestamps) never changes again.
C36_StoppedEntryFrozen ==
    [][\A s \in Shards :
          /\ pc[s] = "done" => shards'[s] = shards[s]
          /\ (pc[s] # "done" /\ pc'[s] = "done"
                 /\ result'[s].kind \in {"Ok", "Cancelled"}) =>
                 shards'[s] = shards[s]]_vars

\* run() has returned and a shard whose runner stopped without an error is
\* still counted as ready
C36_Witness ==
    /\ run_pc = "returned"
    /\ \E s \in Shards :
          /\ pc[s] = "done"
          /\ result[s].kind \in {"Ok", "Cancelled"}
          /\ shards[s].health = "Ready"
    /\ ready_shards(shards) >= 1

\* shutdown() has been called and run() has not
EarlyShutdown == run_pc = "new" /\ shutdowns > 0

\* C37: a shutdown() call made before run() has created the runners'
\* receivers is not lost: once run() is called the runners it spawns observe
\* the signal and end, and run() returns.
C37_EarlyShutdownKept == EarlyShutdown ~> Returned

\* C38: the process has no publisher when the initial connect to the broker
\* fails and when no broker URL is configured; the readiness view then
\* reports nats_connected = true, and ready, with status 200, exactly when
\* shards_ready >= 1.
C38_DegradedReady ==
    /\ \A nats_url \in NatsUrls : main_nats(nats_url, FALSE) = None
    /\ \A connect_ok \in BOOLEAN : main_nats(None, connect_ok) = None
    /\ nats = None =>
          /\ ReadyView.nats_connected
          /\ ReadyView.ready <=> ready_shards(shards) >= 1
          /\ ReadyView.status = IF ready_shards(shards) >= 1 THEN 200 ELSE 503

\* Without a publisher, with one shard Ready and another Disconnected, the
\* view is ready
C38_Witness ==
    /\ nats = None
    /\ ReadyView.ready
    /\ ReadyView.status = 200
    /\ ReadyView.nats_connected
    /\ ready_shards(shards) = 1
    /\ \E s \in Shards : shards[s].health = "Disconnected"

\* The number of pools that share total_shards shards: ceil(total_shards / 25)
PoolCount(total_shards) ==
    (total_shards + SHARDS_PER_POOL - 1) \div SHARDS_PER_POOL

\* C39: for a total_shards that fits in 32 bits, the shard ranges the
\* constructor computes for two distinct pool ids are disjoint, whatever
\* 64-bit values the pool ids are, and the ranges of the pool ids
\* 0 .. ceil(total_shards / 25) - 1 together are exactly [0, total_shards).
C39_RangesPartition ==
    (ctor.out # NotCalled /\ fits_u32(ctor.total_shards)) =>
        /\ \A other \in PoolIds \ {ctor.pool_id} :
              LET out == new(other, ctor.total_shards, ctor.overflow_checks)
              IN  (ctor.out.kind = "Ok" /\ out.kind = "Ok") =>
                      ctor.out.shard_ids \cap out.shard_ids = {}
        /\ lt_u64(ctor.total_shards, u64(LIMB)) =>
              LET total == to_int(ctor.total_shards)
              IN  UNION {new(u64(k), ctor.total_shards,
                             ctor.overflow_checks).shard_ids :
                            k \in 0..(PoolCount(total) - 1)}
                    = {u64(i) : i \in 0..(total - 1)}

\* The event types the serializer produces
SerializedTypes ==
    {serialize_event(ev, 0)[1].event_type :
        ev \in {e \in Events : serialize_event(e, 0) # None}}

\* C40: the subject the router gives an envelope starts with commands. or
\* with events., so every envelope being published is taken by exactly one of
\* the streams COMMANDS (commands.>) and EVENTS (events.>), and by COMMANDS
\* only if its event type is interaction.create; of the event types the
\* serializer produces, interaction.create alone goes to COMMANDS, the others
\* go to EVENTS and none goes to ELIGIBILITY.
C40_SubjectStreams ==
    /\ \A s \in Shards : \A p \in inflight[s] :
          LET subject == route_event(p.envelope.event_type)
              tokens == DotSplit(subject)
          IN  /\ Len(tokens) >= 2
              /\ tokens[1] \in {"commands", "events"}
              /\ streams_of(subject) =
                    IF tokens[1] = "commands" THEN {"COMMANDS"} ELSE {"EVENTS"}
              /\ tokens[1] = "commands" =>
                    p.envelope.event_type = "interaction.create"
    /\ \A event_type \in SerializedTypes :
          streams_of(route_event(event_type)) =
              IF event_type = "interaction.create"
              THEN {"COMMANDS"} ELSE {"EVENTS"}

\* An envelope whose type the router does not know has been submitted: the
\* first call of publish_event has returned and the second awaits its
\* acknowledgement
C40_Witness ==
    \E s \in Shards : \E p \in inflight[s] :
        /\ pc[s] = "ack"
        /\ p.envelope.event_type = "a.b.c"
        /\ streams_of(route_event(p.envelope.event_type)) = {"EVENTS"}
        /\ publish_outcome[s].calls = 1

====
